---- MODULE Spec2Model ----
(***************************************************************************)
(* Model of the human-in-the-loop agent panel (src/agent_panel.py) with    *)
(* its two tools (src/movie_tool.py, src/chart_tool.py).                   *)
(*                                                                         *)
(* One run of agent_panel is one step, except that a run with a new       *)
(* question is two: restart_agent (lines 335-336), then the rendering and  *)
(* the branch of lines 340-359 selected by the phase.  Lists kept in the   *)
(* session storage are sequences, dicts are records, None is the empty     *)
(* tuple and a present optional value is a one-element tuple.              *)
(***************************************************************************)
EXTENDS Integers, Sequences, FiniteSets, TLC

VARIABLES
    agent_phase,            \* st.session_state["agent_phase"]
    agent_events,           \* st.session_state["agent_events"]
    agent_messages,         \* st.session_state["agent_messages"]
    agent_tools,            \* st.session_state["agent_tools"]
    agent_df,               \* st.session_state["agent_df"]
    agent_chart_specs,      \* st.session_state["agent_chart_specs"]
    agent_pending_message,  \* st.session_state["agent_pending_message"]
    agent_alternatives,     \* st.session_state["agent_alternatives"]
    selected_alternative,   \* st.session_state["selected_alternative"]
    pc,                     \* "host" between runs of agent_panel, "restarted" at line 338 after restart_agent
    signal,                 \* the inputs of the run of agent_panel in progress
    last,                   \* the branch the last step of a run took and the inputs of that run; for restart_agent also the phase it found
    next_id,                \* the model service's next fresh tool-call id
    client_request,         \* the messages of the model call the last step made, None if it made none
    exec_log                \* ids of the tool calls handed to a tool executor, in order

session == <<agent_phase, agent_events, agent_messages, agent_tools, agent_df,
             agent_chart_specs, agent_pending_message, agent_alternatives,
             selected_alternative>>

vars == <<agent_phase, agent_events, agent_messages, agent_tools, agent_df,
          agent_chart_specs, agent_pending_message, agent_alternatives,
          selected_alternative, pc, signal, last, next_id, client_request,
          exec_log>>

(***************************************************************************)
(* Bounds of the exploration.                                              *)
(***************************************************************************)
MaxMsgs == 7
MaxCalls == 2

(***************************************************************************)
(* Python values.                                                          *)
(***************************************************************************)
None == <<>>
Some(x) == <<x>>

\* Python's truthiness of a str.
Truthy(x) == x # ""

\* Mutant: a one-based index.
PyIndexOneBased(seq, i) == seq[IF i = 0 THEN Len(seq) ELSE i]

\* Python's seq[i] for -len <= i < len: a negative index counts from the end.
PyIndex(seq, i) == IF i < 0 THEN seq[Len(seq) + i + 1] ELSE seq[i + 1]

(***************************************************************************)
(* Inputs of one run of agent_panel.                                       *)
(***************************************************************************)
Questions == {"", "average rating?"}
DataFrames == {"df", "df[Genre == Drama]"}
Feedbacks == {"", "use median instead"}
NumAlternatives == 3
Indices == (0 - 1)..NumAlternatives

Signals ==
    {[kind |-> "none"], [kind |-> "approve"], [kind |-> "reject"]}
    \cup {[kind |-> "analyze", user_question |-> q, filtered_df |-> d, show_chart |-> c] :
            q \in Questions, d \in DataFrames, c \in BOOLEAN}
    \cup {[kind |-> "submit", feedback |-> f] : f \in Feedbacks}
    \cup {[kind |-> "select", index |-> i] : i \in Indices}

(***************************************************************************)
(* State.                                                                  *)
(***************************************************************************)
DEFAULT_STATE ==
    [agent_phase |-> "idle", agent_events |-> <<>>, agent_messages |-> <<>>,
     agent_tools |-> <<>>, agent_df |-> None, agent_chart_specs |-> <<>>,
     agent_pending_message |-> None, agent_alternatives |-> <<>>,
     selected_alternative |-> None]

Init ==
    /\ agent_phase = DEFAULT_STATE.agent_phase
    /\ agent_events = DEFAULT_STATE.agent_events
    /\ agent_messages = DEFAULT_STATE.agent_messages
    /\ agent_tools = DEFAULT_STATE.agent_tools
    /\ agent_df = DEFAULT_STATE.agent_df
    /\ agent_chart_specs = DEFAULT_STATE.agent_chart_specs
    /\ agent_pending_message = DEFAULT_STATE.agent_pending_message
    /\ agent_alternatives = DEFAULT_STATE.agent_alternatives
    /\ selected_alternative = DEFAULT_STATE.selected_alternative
    /\ pc = "host"
    /\ signal = [kind |-> "none"]
    /\ last = [branch |-> "init", input |-> [kind |-> "none"]]
    /\ next_id = 1
    /\ client_request = None
    /\ exec_log = <<>>

(***************************************************************************)
(* restart_agent: the session of a new question.                           *)
(***************************************************************************)
get_tools(filtered_df) == <<[name |-> "QueryMovieDB", schema |-> filtered_df]>>

get_chart_tool == [name |-> "CreateChart"]

SystemContent(show_chart) ==
    IF show_chart THEN "You are a data analyst. After computing the data, create a chart."
    ELSE "You are a data analyst."

(***************************************************************************)
(* The tools.  What the generated script does when it is run is an input   *)
(* of the execution: run is the outcome of subprocess.run (lines 41-46).   *)
(* The spec string of a CreateChart call is represented by what the two    *)
(* parsers make of it; a string that parses as JSON and fails the          *)
(* Vega-Lite validation ("bad vega") goes the way of "bad json" but for    *)
(* the text of the result.                                                 *)
(***************************************************************************)
Codes == {"code"}
SpecKinds == {"valid", "bad json"}

Runs ==
    {[timed_out |-> TRUE],
     [timed_out |-> FALSE, returncode |-> 1, stdout |-> "", stderr |-> "Traceback"],
     [timed_out |-> FALSE, returncode |-> 0, stdout |-> "", stderr |-> ""],
     [timed_out |-> FALSE, returncode |-> 0, stdout |-> "8.1", stderr |-> ""]}

\* subprocess.run(..., timeout=10) raises TimeoutExpired for a script that
\* is still running after 10 s; nothing in the callers catches it.
query_movie_db(code, filtered_df, run) ==
    IF run.timed_out THEN [raised |-> TRUE]
    ELSE IF run.returncode # 0 THEN [raised |-> FALSE, value |-> run.stderr]
    ELSE IF run.stdout = ""
         THEN [raised |-> FALSE, value |-> "No output. Did you forget to use print()?"]
    ELSE [raised |-> FALSE, value |-> run.stdout]

validate_chart(vega_lite_spec) ==
    CASE vega_lite_spec = "bad json" -> [spec |-> None, result |-> "Invalid JSON"]
      [] vega_lite_spec = "bad vega" -> [spec |-> None, result |-> "Invalid Vega-Lite specification"]
      [] OTHER -> [spec |-> Some([parsed |-> vega_lite_spec]),
                   result |-> "Valid Vega-Lite specification."]

(***************************************************************************)
(* The model service.  A call either returns one of the responses below    *)
(* or raises (transport failure, unparseable or schema-violating content). *)
(***************************************************************************)
\* Reasoning (lines 59-62) as parsed from the response.
Reasonings ==
    {[reason |-> "reason", use_tool |-> TRUE, answer |-> None],
     [reason |-> "reason", use_tool |-> FALSE, answer |-> Some("answer")]}

\* The tool calls the service may request: a call of a registered tool with
\* arguments that satisfy its schema.
CallChoices(tools) ==
    {[name |-> "QueryMovieDB", arguments |-> [code |-> k]] : k \in Codes}
    \cup (IF \E i \in 1..Len(tools) : tools[i].name = "CreateChart"
          THEN {[name |-> "CreateChart", arguments |-> [vega_lite_spec |-> k]] : k \in SpecKinds}
          ELSE {})

\* A batch: its calls carry fresh ids first, first + 1, ...
WithIds(choices, first) ==
    [i \in 1..Len(choices) |->
        [id |-> first + i - 1, function |-> choices[i]]]

Batches(tools, first) ==
    {WithIds(c, first) :
        c \in UNION {[1..n -> CallChoices(tools)] : n \in 0..MaxCalls}}

\* The Alternatives response format (lines 145-155): the service may answer
\* with a list of any length, and parsing the answer raises unless the
\* list satisfies min_length and max_length.
Alternative(t) == [title |-> t, description |-> "do " \o t, rationale |-> "why " \o t]

min_length == 3
max_length == 3

AlternativePool ==
    <<Alternative("by genre"), Alternative("by year"), Alternative("median"),
      Alternative("by decade")>>

AlternativeResponses ==
    {SubSeq(AlternativePool, 1, n) : n \in (min_length - 1)..(max_length + 1)}

\* Mutant: the schema has no max_length.
AlternativesValidNoMax(alternatives) == min_length <= Len(alternatives)

AlternativesValid(alternatives) ==
    min_length <= Len(alternatives) /\ Len(alternatives) <= max_length

\* The lists that response.choices[0].message.parsed.alternatives can be.
AlternativeLists == {a \in AlternativeResponses : AlternativesValid(a)}

(***************************************************************************)
(* run_step (lines 54-90).                                                 *)
(***************************************************************************)
run_step_thinking(reasoning) ==
    /\ agent_messages' = Append(agent_messages,
                                [role |-> "assistant", content |-> reasoning.reason])
    /\ IF reasoning.use_tool
       THEN /\ agent_events' = Append(agent_events,
                                      [type |-> "thought", thought |-> reasoning.reason])
            /\ agent_phase' = "acting"
       ELSE /\ agent_events' = Append(agent_events,
                                      [type |-> "answer", thought |-> reasoning.reason,
                                       answer |-> reasoning.answer])
            /\ agent_phase' = "done"
    /\ UNCHANGED <<agent_tools, agent_df, agent_chart_specs, agent_pending_message,
                   agent_alternatives, selected_alternative>>

\* Mutant: stored alternatives outlive the restart.
restart_agent_keeps_alternatives(user_question, filtered_df, show_chart) ==
    /\ agent_phase' = "thinking"
    /\ agent_events' = <<>>
    /\ agent_chart_specs' = <<>>
    /\ agent_pending_message' = None
    /\ selected_alternative' = None
    /\ agent_messages' = <<[role |-> "system", content |-> SystemContent(show_chart)],
                           [role |-> "user", content |-> user_question]>>
    /\ agent_tools' = IF show_chart THEN Append(get_tools(filtered_df), get_chart_tool)
                      ELSE get_tools(filtered_df)
    /\ agent_df' = Some(filtered_df)
    /\ UNCHANGED agent_alternatives

restart_agent(user_question, filtered_df, show_chart) ==
    /\ agent_phase' = "thinking"
    /\ agent_events' = <<>>
    /\ agent_chart_specs' = <<>>
    /\ agent_pending_message' = None
    /\ agent_alternatives' = <<>>
    /\ selected_alternative' = None
    /\ agent_messages' = <<[role |-> "system", content |-> SystemContent(show_chart)],
                           [role |-> "user", content |-> user_question]>>
    /\ agent_tools' = IF show_chart THEN Append(get_tools(filtered_df), get_chart_tool)
                      ELSE get_tools(filtered_df)
    /\ agent_df' = Some(filtered_df)

\* Mutant: the proposal is stored before the test for tool calls.
run_step_acting_stores_first(msg) ==
    /\ agent_pending_message' = Some(msg)
    /\ agent_phase' = IF msg.tool_calls = <<>> THEN "done" ELSE "awaiting_approval"
    /\ UNCHANGED <<agent_events, agent_messages, agent_tools, agent_df,
                   agent_chart_specs, agent_alternatives, selected_alternative>>

\* Mutant: a response without tool calls sends the agent back to thinking.
run_step_acting_rethinks(msg) ==
    /\ IF msg.tool_calls = <<>>
       THEN /\ agent_phase' = "thinking"
            /\ UNCHANGED agent_pending_message
       ELSE /\ agent_pending_message' = Some(msg)
            /\ agent_phase' = "awaiting_approval"
    /\ UNCHANGED <<agent_events, agent_messages, agent_tools, agent_df,
                   agent_chart_specs, agent_alternatives, selected_alternative>>

\* Mutant: a response without tool calls is recorded as an answer.
run_step_acting_answers(msg) ==
    /\ IF msg.tool_calls = <<>>
       THEN /\ agent_phase' = "done"
            /\ agent_events' = Append(agent_events,
                                      [type |-> "answer", thought |-> "",
                                       answer |-> Some(msg.content)])
            /\ UNCHANGED agent_pending_message
       ELSE /\ agent_pending_message' = Some(msg)
            /\ agent_phase' = "awaiting_approval"
            /\ UNCHANGED agent_events
    /\ UNCHANGED <<agent_messages, agent_tools, agent_df,
                   agent_chart_specs, agent_alternatives, selected_alternative>>

run_step_acting(msg) ==
    /\ IF msg.tool_calls = <<>>
       THEN /\ agent_phase' = "done"
            /\ UNCHANGED agent_pending_message
       ELSE /\ agent_pending_message' = Some(msg)
            /\ agent_phase' = "awaiting_approval"
    /\ UNCHANGED <<agent_events, agent_messages, agent_tools, agent_df,
                   agent_chart_specs, agent_alternatives, selected_alternative>>

(***************************************************************************)
(* execute_pending_tools (lines 92-119).  The loop works on the lists in   *)
(* place, so what it appended before a call raised stays in the session.   *)
(* st.result is the local variable result: None while it is unbound.       *)
(***************************************************************************)
ExecuteBranch(st, tc, run) ==
    IF tc.function.name = "QueryMovieDB"
    THEN LET r == query_movie_db(tc.function.arguments.code, st.df, run) IN
         IF r.raised
         THEN [st EXCEPT !.raised = TRUE, !.exec = Append(@, tc.id)]
         ELSE [st EXCEPT !.exec = Append(@, tc.id),
                         !.result = Some(r.value),
                         !.events = Append(@, [type |-> "action", name |-> tc.function.name,
                                               code |-> tc.function.arguments.code,
                                               result |-> r.value])]
    ELSE IF tc.function.name = "CreateChart"
    THEN LET v == validate_chart(tc.function.arguments.vega_lite_spec) IN
         [st EXCEPT !.exec = Append(@, tc.id),
                    !.result = Some(v.result),
                    !.chart_specs = IF v.spec # None THEN Append(@, v.spec[1]) ELSE @,
                    !.events = Append(@, [type |-> "chart", name |-> tc.function.name,
                                          spec_str |-> tc.function.arguments.vega_lite_spec,
                                          result |-> v.result])]
    ELSE st

ExecuteCall(st, tc, run) ==
    LET b == ExecuteBranch(st, tc, run) IN
    IF b.raised THEN b
    ELSE IF b.result = None THEN [b EXCEPT !.raised = TRUE]
    ELSE [b EXCEPT !.messages = Append(@, [role |-> "tool", content |-> b.result[1],
                                           tool_call_id |-> tc.id])]

RECURSIVE ExecuteLoop(_, _, _)
ExecuteLoop(st, calls, runs) ==
    IF calls = <<>> \/ st.raised THEN st
    ELSE ExecuteLoop(ExecuteCall(st, Head(calls), Head(runs)), Tail(calls), Tail(runs))

\* runs[k] is what running the script of the k-th call does, if it is run.
ExecuteResult(runs) ==
    LET pending_msg == agent_pending_message[1] IN
    ExecuteLoop([messages |-> Append(agent_messages, pending_msg),
                 events |-> agent_events,
                 chart_specs |-> agent_chart_specs,
                 df |-> agent_df,
                 exec |-> exec_log,
                 result |-> None,
                 raised |-> FALSE],
                pending_msg.tool_calls, runs)

execute_pending_tools(runs) ==
    LET st == ExecuteResult(runs) IN
    /\ agent_messages' = st.messages
    /\ agent_events' = st.events
    /\ agent_chart_specs' = st.chart_specs
    /\ exec_log' = st.exec
    /\ IF st.raised
       THEN UNCHANGED <<agent_pending_message, agent_phase>>
       ELSE /\ agent_pending_message' = None
            /\ agent_phase' = "thinking"
    /\ UNCHANGED <<agent_tools, agent_df, agent_alternatives, selected_alternative>>

(***************************************************************************)
(* reject_pending_tools (lines 121-138).                                   *)
(***************************************************************************)
\* Mutant: the suffix is added for empty feedback too.
RejectionMsgAlwaysSuffixed(feedback) ==
    "User rejected this action." \o " User feedback: " \o feedback

RejectionMsg(feedback) ==
    IF Truthy(feedback)
    THEN "User rejected this action." \o " User feedback: " \o feedback
    ELSE "User rejected this action."

RECURSIVE RejectLoop(_, _, _)
RejectLoop(st, calls, feedback) ==
    IF calls = <<>> THEN st
    ELSE LET tc == Head(calls) IN
         RejectLoop([st EXCEPT
                        !.events = Append(@, [type |-> "rejected", name |-> tc.function.name,
                                              feedback |-> feedback]),
                        !.messages = Append(@, [role |-> "tool",
                                                content |-> RejectionMsg(feedback),
                                                tool_call_id |-> tc.id])],
                    Tail(calls), feedback)

\* Mutant: empty feedback skips the alternatives.
RejectPhaseShortCircuit(feedback) ==
    IF Truthy(feedback) THEN "generating_alternatives" ELSE "thinking"

RejectPhase(feedback) == "generating_alternatives"

reject_pending_tools(feedback) ==
    LET pending_msg == agent_pending_message[1]
        st == RejectLoop([messages |-> Append(agent_messages, pending_msg),
                          events |-> agent_events],
                         pending_msg.tool_calls, feedback)
    IN /\ agent_messages' = st.messages
       /\ agent_events' = st.events
       /\ agent_pending_message' = None
       /\ agent_phase' = RejectPhase(feedback)
       /\ UNCHANGED <<agent_tools, agent_df, agent_chart_specs, agent_alternatives,
                      selected_alternative>>

(***************************************************************************)
(* generate_alternatives (lines 141-175).  alt_messages is a new list      *)
(* (messages + [...]), so the stored history is not touched.               *)
(***************************************************************************)
AltInstruction ==
    [role |-> "user",
     content |-> "The user rejected your proposed action. Generate 3 different alternative approaches to answer their question."]

alt_messages(messages) == messages \o <<AltInstruction>>

\* Mutant: the instruction is appended to the stored history in place.
generate_alternatives_in_place(alternatives) ==
    /\ agent_messages' = Append(agent_messages, AltInstruction)
    /\ agent_alternatives' = alternatives
    /\ agent_events' = Append(agent_events, [type |-> "alternatives_generated",
                                             alternatives |-> alternatives])
    /\ agent_phase' = "selecting_alternative"
    /\ UNCHANGED <<agent_tools, agent_df, agent_chart_specs,
                   agent_pending_message, selected_alternative>>

generate_alternatives(alternatives) ==
    /\ agent_alternatives' = alternatives
    /\ agent_events' = Append(agent_events, [type |-> "alternatives_generated",
                                             alternatives |-> alternatives])
    /\ agent_phase' = "selecting_alternative"
    /\ UNCHANGED <<agent_messages, agent_tools, agent_df, agent_chart_specs,
                   agent_pending_message, selected_alternative>>

(***************************************************************************)
(* apply_selected_alternative (lines 178-197).                             *)
(***************************************************************************)
\* Mutant: the lower bound of the range test is missing.
InRangeNoLowerBound(alternative_index, alternatives) ==
    alternative_index < Len(alternatives)

InRange(alternative_index, alternatives) ==
    0 <= alternative_index /\ alternative_index < Len(alternatives)

GuidanceMsg(selected) ==
    "User selected approach: '" \o selected.title \o "'. " \o selected.description
        \o ". Please proceed with this strategy."

apply_selected_alternative(alternative_index) ==
    IF InRange(alternative_index, agent_alternatives)
    THEN LET selected == PyIndex(agent_alternatives, alternative_index) IN
         /\ selected_alternative' = Some(alternative_index)
         /\ agent_messages' = Append(agent_messages,
                                     [role |-> "user", content |-> GuidanceMsg(selected)])
         /\ agent_events' = Append(agent_events,
                                   [type |-> "alternative_selected",
                                    alternative |-> selected,
                                    index |-> alternative_index])
         /\ agent_phase' = "thinking"
         /\ UNCHANGED <<agent_tools, agent_df, agent_chart_specs, agent_pending_message,
                        agent_alternatives>>
    ELSE UNCHANGED session

(***************************************************************************)
(* render_panel (lines 279-327) and the dispatch of agent_panel (lines     *)
(* 340-359).  A widget exists only in the phase that renders it, so the    *)
(* actions dict carries a signal only in that phase; actions.get(...) of   *)
(* a missing key is None (falsy).                                          *)
(***************************************************************************)
\* Mutant: in awaiting_feedback any click counts as the submit button.
render_panel_any_click(phase, sig) ==
    [approved |-> phase = "awaiting_approval" /\ sig.kind = "approve",
     rejected |-> phase = "awaiting_approval" /\ sig.kind = "reject",
     submitted |-> phase = "awaiting_feedback" /\ sig.kind \in {"submit", "approve", "reject", "select"},
     feedback |-> IF phase = "awaiting_feedback" /\ sig.kind = "submit"
                  THEN sig.feedback ELSE "",
     selected_alternative |-> IF phase = "selecting_alternative" /\ sig.kind = "select"
                              THEN Some(sig.index) ELSE None]

render_panel(phase, sig) ==
    [approved |-> phase = "awaiting_approval" /\ sig.kind = "approve",
     rejected |-> phase = "awaiting_approval" /\ sig.kind = "reject",
     submitted |-> phase = "awaiting_feedback" /\ sig.kind = "submit",
     feedback |-> IF phase = "awaiting_feedback" /\ sig.kind = "submit"
                  THEN sig.feedback ELSE "",
     selected_alternative |-> IF phase = "selecting_alternative" /\ sig.kind = "select"
                              THEN Some(sig.index) ELSE None]

\* Mutant: the awaiting_feedback branch does not test the submit button.
BranchWithoutSubmitTest(phase, actions) ==
    IF phase \in {"thinking", "acting"} THEN "run_step"
    ELSE IF phase = "awaiting_approval"
         THEN (IF actions.approved THEN "execute"
               ELSE IF actions.rejected THEN "reject_click" ELSE "none")
    ELSE IF phase = "awaiting_feedback" THEN "reject"
    ELSE IF phase = "generating_alternatives" THEN "generate"
    ELSE IF phase = "selecting_alternative" /\ actions.selected_alternative # None
         THEN "select"
    ELSE "none"

Branch(phase, actions) ==
    IF phase \in {"thinking", "acting"} THEN "run_step"
    ELSE IF phase = "awaiting_approval"
         THEN (IF actions.approved THEN "execute"
               ELSE IF actions.rejected THEN "reject_click" ELSE "none")
    ELSE IF phase = "awaiting_feedback" /\ actions.submitted THEN "reject"
    ELSE IF phase = "generating_alternatives" THEN "generate"
    ELSE IF phase = "selecting_alternative" /\ actions.selected_alternative # None
         THEN "select"
    ELSE "none"

PendingCalls ==
    IF agent_pending_message = None THEN <<>> ELSE agent_pending_message[1].tool_calls

\* The exploration stops where the history would outgrow MaxMsgs.
Room(n) == Len(agent_messages) + n <= MaxMsgs

NewQuestion(sig) == sig.kind = "analyze" /\ Truthy(sig.user_question)

\* The run of agent_panel with inputs sig is at line 338: either it has just
\* passed lines 335-336 with no new question, or restart_agent has returned.
AtPanel(sig) ==
    \/ pc = "host" /\ ~NewQuestion(sig)
    \/ pc = "restarted" /\ sig = signal

Dispatching(sig, b) ==
    /\ AtPanel(sig)
    /\ Branch(agent_phase, render_panel(agent_phase, sig)) = b

\* Whether the panel rendered in this phase has the widget that gives sig.
HasWidget(phase, sig) ==
    \/ phase = "awaiting_approval" /\ sig.kind \in {"approve", "reject"}
    \/ phase = "awaiting_feedback" /\ sig.kind = "submit"
    \/ phase = "selecting_alternative" /\ sig.kind = "select"

\* The inputs of a run as the history keeps them: whole when a widget of
\* the phase gives them, otherwise only their kind.
Heard(phase, sig) == IF HasWidget(phase, sig) THEN sig ELSE [kind |-> sig.kind]

\* What every run leaves behind when it ends.
Ends(sig, branch) ==
    /\ pc' = "host"
    /\ signal' = [kind |-> "none"]
    /\ last' = [branch |-> branch, input |-> Heard(agent_phase, sig)]

(***************************************************************************)
(* agent_panel (lines 332-359).  A run with a new question is two steps,   *)
(* restart_agent and then the dispatch; any other run is one step.         *)
(***************************************************************************)
\* Lines 335-336 with a new question: the session is replaced.  The id
\* counter and the execution log belong to the session they describe; the
\* history keeps the phase the question arrived in.
Restart(sig) ==
    /\ pc = "host"
    /\ NewQuestion(sig)
    /\ restart_agent(sig.user_question, sig.filtered_df, sig.show_chart)
    /\ signal' = sig
    /\ pc' = "restarted"
    /\ next_id' = 1
    /\ client_request' = None
    /\ exec_log' = <<>>
    /\ last' = [branch |-> "restart", input |-> Heard(agent_phase, sig),
                from |-> agent_phase]

Thinking(sig) ==
    /\ Dispatching(sig, "run_step")
    /\ agent_phase = "thinking"
    /\ Room(1)
    /\ client_request' = Some(agent_messages)
    /\ \E reasoning \in Reasonings : run_step_thinking(reasoning)
    /\ Ends(sig, "thinking")
    /\ UNCHANGED <<next_id, exec_log>>

Acting(sig) ==
    /\ Dispatching(sig, "run_step")
    /\ agent_phase = "acting"
    /\ client_request' = Some(agent_messages)
    /\ \E tool_calls \in Batches(agent_tools, next_id) :
          /\ run_step_acting([role |-> "assistant", content |-> "",
                              tool_calls |-> tool_calls])
          /\ next_id' = next_id + Len(tool_calls)
    /\ Ends(sig, "acting")
    /\ UNCHANGED exec_log

\* The model call of run_step or generate_alternatives raises: nothing was
\* written before the call, and the run of agent_panel ends there.
ServiceError(sig) ==
    /\ \/ /\ Dispatching(sig, "run_step")
          /\ client_request' = Some(agent_messages)
       \/ /\ Dispatching(sig, "generate")
          /\ client_request' = Some(alt_messages(agent_messages))
    /\ Ends(sig, "service_error")
    /\ UNCHANGED <<session, next_id, exec_log>>

Approve(sig) ==
    /\ Dispatching(sig, "execute")
    /\ Room(1 + Len(PendingCalls))
    /\ \E runs \in [1..Len(PendingCalls) -> Runs] :
          /\ execute_pending_tools(runs)
          /\ Ends(sig, IF ExecuteResult(runs).raised THEN "execute_raised" ELSE "execute")
    /\ client_request' = None
    /\ UNCHANGED next_id

RejectClick(sig) ==
    /\ Dispatching(sig, "reject_click")
    /\ agent_phase' = "awaiting_feedback"
    /\ Ends(sig, "reject_click")
    /\ UNCHANGED <<agent_events, agent_messages, agent_tools, agent_df, agent_chart_specs,
                   agent_pending_message, agent_alternatives, selected_alternative,
                   next_id, exec_log>>
    /\ client_request' = None

SubmitFeedback(sig) ==
    /\ Dispatching(sig, "reject")
    /\ Room(1 + Len(PendingCalls))
    /\ reject_pending_tools(render_panel(agent_phase, sig).feedback)
    /\ Ends(sig, "reject")
    /\ client_request' = None
    /\ UNCHANGED <<next_id, exec_log>>

GenerateAlternatives(sig) ==
    /\ Dispatching(sig, "generate")
    /\ client_request' = Some(alt_messages(agent_messages))
    /\ \E alternatives \in AlternativeLists : generate_alternatives(alternatives)
    /\ Ends(sig, "generate")
    /\ UNCHANGED <<next_id, exec_log>>

SelectAlternative(sig) ==
    /\ Dispatching(sig, "select")
    /\ Room(1)
    /\ apply_selected_alternative(render_panel(agent_phase, sig).selected_alternative[1])
    /\ Ends(sig, "select")
    /\ client_request' = None
    /\ UNCHANGED <<next_id, exec_log>>

\* No branch of lines 340-359 applies: the run only rendered.
Rendered(sig) ==
    /\ Dispatching(sig, "none")
    /\ Ends(sig, "none")
    /\ client_request' = None
    /\ UNCHANGED <<session, next_id, exec_log>>

Next ==
    \/ \E sig \in Signals : Restart(sig)
    \/ \E sig \in Signals : Thinking(sig)
    \/ \E sig \in Signals : Acting(sig)
    \/ \E sig \in Signals : ServiceError(sig)
    \/ \E sig \in Signals : Approve(sig)
    \/ \E sig \in Signals : RejectClick(sig)
    \/ \E sig \in Signals : SubmitFeedback(sig)
    \/ \E sig \in Signals : GenerateAlternatives(sig)
    \/ \E sig \in Signals : SelectAlternative(sig)
    \/ \E sig \in Signals : Rendered(sig)

Spec == Init /\ [][Next]_vars

(***************************************************************************)
(* Properties.                                                             *)
(***************************************************************************)
Count(seq, x) == Cardinality({i \in 1..Len(seq) : seq[i] = x})

HasToolCalls(m) ==
    m.role = "assistant" /\ "tool_calls" \in DOMAIN m /\ m.tool_calls # <<>>

IsRejection(m) == m.role = "tool" /\ m.content \in {RejectionMsg(f) : f \in Feedbacks}

SuspendPhases == {"awaiting_approval", "awaiting_feedback", "selecting_alternative"}
ModelPhases == {"thinking", "acting", "generating_alternatives"}

\* C1: every assistant message of the stored history that carries tool-call
\* requests is followed at once by one tool message per requested call, in
\* the order of the requests and with the id of its request, and by no
\* further tool message.
C1_ToolCallsPaired ==
    \A p \in 1..Len(agent_messages) :
        HasToolCalls(agent_messages[p]) =>
            LET calls == agent_messages[p].tool_calls
                n == Len(calls)
            IN /\ p + n <= Len(agent_messages)
               /\ \A k \in 1..n :
                     /\ agent_messages[p + k].role = "tool"
                     /\ agent_messages[p + k].tool_call_id = calls[k].id
               /\ p + n < Len(agent_messages) => agent_messages[p + n + 1].role # "tool"

\* C2: no tool call is handed to its executor twice, a call answered by a
\* tool-result message was executed once, a call answered by the synthetic
\* rejection message was executed zero times, and a call is not executed by
\* the acting step that proposes it.
C2_ExecutedExactlyOnce ==
    /\ \A id \in 1..(next_id - 1) : Count(exec_log, id) <= 1
    /\ \A p \in 1..Len(agent_messages) :
          agent_messages[p].role = "tool" =>
              Count(exec_log, agent_messages[p].tool_call_id)
                  = (IF IsRejection(agent_messages[p]) THEN 0 ELSE 1)
    /\ last.branch = "acting" =>
          \A k \in 1..Len(PendingCalls) : Count(exec_log, PendingCalls[k].id) = 0

\* C3: a run that submits feedback in awaiting_feedback, empty or not, ends
\* in generating_alternatives.
C3_FeedbackLeadsToAlternatives ==
    [][\A f \in Feedbacks :
          (/\ agent_phase = "awaiting_feedback"
           /\ last' = [branch |-> "reject", input |-> [kind |-> "submit", feedback |-> f]])
          => agent_phase' = "generating_alternatives"]_vars

C3_Witness ==
    /\ last = [branch |-> "reject", input |-> [kind |-> "submit", feedback |-> ""]]
    /\ agent_phase = "generating_alternatives"
    /\ agent_events[Len(agent_events)].type = "rejected"

\* C4: the pending tool-call batch is set exactly in the phases
\* awaiting_approval and awaiting_feedback.
C4_PendingIffApprovalPhases ==
    (agent_pending_message # None)
        <=> agent_phase \in {"awaiting_approval", "awaiting_feedback"}

C4_Witness ==
    /\ agent_pending_message # None
    /\ agent_phase = "awaiting_feedback"
    /\ last.branch = "reject_click"

\* C5: the stored alternatives are non-empty only while the phase is
\* selecting_alternative.
C5_AlternativesOnlyWhileSelecting ==
    agent_alternatives # <<>> => agent_phase = "selecting_alternative"

\* C6: in no state is a pending tool-call batch set while the stored
\* alternatives are non-empty.
C6_PendingAndAlternativesExclusive ==
    ~(agent_pending_message # None /\ agent_alternatives # <<>>)

\* C7: a run that selects the in-range index i in selecting_alternative
\* appends one user message built from the title and the description of
\* alternative i, appends one alternative_selected event with index i,
\* records i and ends in thinking.
C7_SelectionApplied ==
    [][\A i \in Indices :
          (/\ agent_phase = "selecting_alternative"
           /\ 0 <= i /\ i < Len(agent_alternatives)
           /\ last' = [branch |-> "select", input |-> [kind |-> "select", index |-> i]])
          => LET chosen == agent_alternatives[i + 1] IN
             /\ agent_messages' =
                   Append(agent_messages,
                          [role |-> "user",
                           content |-> "User selected approach: '" \o chosen.title \o "'. "
                                       \o chosen.description
                                       \o ". Please proceed with this strategy."])
             /\ agent_events' =
                   Append(agent_events,
                          [type |-> "alternative_selected", alternative |-> chosen,
                           index |-> i])
             /\ selected_alternative' = Some(i)
             /\ agent_phase' = "thinking"]_vars

C7_Witness ==
    /\ last = [branch |-> "select", input |-> [kind |-> "select", index |-> 1]]
    /\ agent_phase = "thinking"
    /\ selected_alternative = Some(1)
    /\ agent_events[Len(agent_events)].type = "alternative_selected"

\* C8: a run that selects an out-of-range index in selecting_alternative
\* changes no field of the session.
C8_OutOfRangeIgnored ==
    [][\A i \in Indices :
          (/\ agent_phase = "selecting_alternative"
           /\ ~(0 <= i /\ i < Len(agent_alternatives))
           /\ last' = [branch |-> "select", input |-> [kind |-> "select", index |-> i]])
          => UNCHANGED session]_vars

C8_Witness ==
    /\ last = [branch |-> "select", input |-> [kind |-> "select", index |-> NumAlternatives]]
    /\ agent_phase = "selecting_alternative"
    /\ selected_alternative = None

\* C9: a run with no signal in awaiting_approval, awaiting_feedback or
\* selecting_alternative changes no field of the session.
C9_SuspendedRunIdempotent ==
    [][(/\ agent_phase \in SuspendPhases
        /\ pc = "host"
        /\ last'.input = [kind |-> "none"])
       => UNCHANGED session]_vars

C9_Witness ==
    /\ last = [branch |-> "none", input |-> [kind |-> "none"]]
    /\ agent_phase = "awaiting_feedback"
    /\ agent_pending_message # None

C11_RestartReplacesSession ==
    [][last'.branch = "restart"
       => /\ agent_events' = <<>>
          /\ agent_chart_specs' = <<>>
          /\ agent_alternatives' = <<>>
          /\ selected_alternative' = None
          /\ agent_pending_message' = None
          /\ Len(agent_messages') = 2
          /\ agent_messages'[1].role = "system"
          /\ agent_messages'[2] = [role |-> "user", content |-> signal'.user_question]
          /\ agent_df' = Some(signal'.filtered_df)
          /\ agent_tools'[1] = [name |-> "QueryMovieDB", schema |-> signal'.filtered_df]
          /\ Len(agent_tools') = (IF signal'.show_chart THEN 2 ELSE 1)]_vars

C11_Witness ==
    /\ pc = "restarted"
    /\ last.branch = "restart"
    /\ last.from = "awaiting_feedback"
    /\ agent_df = Some("df[Genre == Drama]")
    /\ agent_messages[2].content = "average rating?"

\* C12: a run that approves a batch, whatever its calls do when they are
\* executed (the script fails, runs past the time limit or prints nothing,
\* the chart spec is invalid), appends the batch and one tool-result
\* message per call with the id of the call, clears the pending batch and
\* ends in thinking.
C12_ToolFailureNotFatal ==
    [][(/\ agent_phase = "awaiting_approval"
        /\ last'.branch \in {"execute", "execute_raised"})
       => LET calls == PendingCalls
              n == Len(agent_messages)
          IN /\ Len(agent_messages') = n + 1 + Len(calls)
             /\ \A k \in 1..Len(calls) :
                   /\ agent_messages'[n + 1 + k].role = "tool"
                   /\ agent_messages'[n + 1 + k].tool_call_id = calls[k].id
             /\ agent_pending_message' = None
             /\ agent_phase' = "thinking"]_vars

\* C13: once a model call has failed, no later run of the session calls
\* the model again until a new question arrives, and the failed run does
\* not put the phase back to idle.
C13_ServiceErrorTerminal ==
    [][(last.branch = "service_error" /\ last'.branch # "restart")
       => /\ client_request' = None
          /\ agent_phase' # "idle"]_vars

\* C14: a run of agent_panel changes the phase at most once; for the run
\* with a new question, whose first step is restart_agent: when
\* restart_agent has changed the phase the question arrived in, the rest of
\* the run does not change it again.
C14_OnePhaseChangePerRun ==
    [][(pc = "restarted" /\ last.from # agent_phase)
       => agent_phase' = agent_phase]_vars

\* C15: a completed alternative-generation step stores exactly 3
\* alternatives, so in selecting_alternative the stored list has 3 entries
\* and the indices that pass the range test are 0, 1 and 2.
C15_ExactlyThreeAlternatives ==
    /\ last.branch = "generate" => Len(agent_alternatives) = 3
    /\ agent_phase = "selecting_alternative"
          => /\ Len(agent_alternatives) = 3
             /\ {i \in Indices : InRange(i, agent_alternatives)} = {0, 1, 2}

C15_Witness ==
    /\ last.branch = "generate"
    /\ agent_phase = "selecting_alternative"
    /\ agent_alternatives # <<>>
    /\ agent_alternatives[3].title = "median"

\* C16: a run that approves a batch of n calls appends exactly n events, the
\* k-th an action event for a QueryMovieDB call and a chart event for a
\* CreateChart call, and after the batch exactly n tool messages, the k-th
\* with the id of the k-th call and the result of the k-th event.
C16_BatchOrderAndIds ==
    [][(/\ agent_phase = "awaiting_approval"
        /\ last'.branch \in {"execute", "execute_raised"})
       => LET calls == PendingCalls
              n == Len(calls)
              e == Len(agent_events)
              m == Len(agent_messages)
          IN /\ Len(agent_events') = e + n
             /\ Len(agent_messages') = m + 1 + n
             /\ SubSeq(agent_events', 1, e) = agent_events
             /\ SubSeq(agent_messages', 1, m) = agent_messages
             /\ agent_messages'[m + 1].tool_calls = calls
             /\ \A k \in 1..n :
                   /\ agent_events'[e + k].name = calls[k].function.name
                   /\ agent_events'[e + k].type =
                         (IF calls[k].function.name = "QueryMovieDB" THEN "action" ELSE "chart")
                   /\ agent_messages'[m + 1 + k] =
                         [role |-> "tool", content |-> agent_events'[e + k].result,
                          tool_call_id |-> calls[k].id]]_vars

\* C17: a run that submits feedback f for a rejected batch appends the
\* batch, then per call one rejected event carrying f and one tool message
\* with the id of the call, whose content is "User rejected this action."
\* for empty f and that text followed by " User feedback: " and f
\* otherwise, and clears the pending batch.
C17_RejectionRecorded ==
    [][\A f \in Feedbacks :
          (/\ agent_phase = "awaiting_feedback"
           /\ last' = [branch |-> "reject", input |-> [kind |-> "submit", feedback |-> f]])
          => LET calls == PendingCalls
                 n == Len(calls)
                 e == Len(agent_events)
                 m == Len(agent_messages)
                 text == IF f = "" THEN "User rejected this action."
                         ELSE "User rejected this action. User feedback: " \o f
             IN /\ Len(agent_events') = e + n
                /\ Len(agent_messages') = m + 1 + n
                /\ SubSeq(agent_events', 1, e) = agent_events
                /\ SubSeq(agent_messages', 1, m) = agent_messages
                /\ agent_messages'[m + 1].tool_calls = calls
                /\ \A k \in 1..n :
                      /\ agent_events'[e + k] =
                            [type |-> "rejected", name |-> calls[k].function.name,
                             feedback |-> f]
                      /\ agent_messages'[m + 1 + k] =
                            [role |-> "tool", content |-> text, tool_call_id |-> calls[k].id]
                /\ agent_pending_message' = None]_vars

C17_Witness ==
    /\ last = [branch |-> "reject",
               input |-> [kind |-> "submit", feedback |-> "use median instead"]]
    /\ agent_pending_message = None
    /\ Len(agent_events) >= 3
    /\ agent_events[Len(agent_events)].type = "rejected"
    /\ agent_events[Len(agent_events) - 1].type = "rejected"
    /\ agent_messages[Len(agent_messages)].content
          = "User rejected this action. User feedback: use median instead"
    /\ agent_messages[Len(agent_messages)].tool_call_id = 2

HasInstruction(messages) ==
    \E i \in 1..Len(messages) : messages[i].content = AltInstruction.content

\* C18 as stated: once alternatives have been generated the stored history
\* contains the instruction message that asked for them.
C18_InstructionPersisted ==
    agent_phase = "selecting_alternative" => HasInstruction(agent_messages)

\* C18 as amended: the alternative-generation step sends the stored history
\* followed by the instruction message and leaves the stored history as it
\* was; the stored history never contains the instruction, and no model
\* call of run_step is sent it.
C18_InstructionTransient ==
    [][/\ last'.branch = "generate"
          => /\ client_request' = Some(agent_messages \o <<AltInstruction>>)
             /\ agent_messages' = agent_messages
       /\ ~HasInstruction(agent_messages')
       /\ last'.branch \in {"thinking", "acting"}
          => /\ client_request' # None
             /\ ~HasInstruction(client_request'[1])]_vars

C18_Witness ==
    /\ last.branch = "thinking"
    /\ selected_alternative # None
    /\ client_request # None
    /\ client_request[1][Len(client_request[1])].role = "user"
    /\ ~HasInstruction(client_request[1])

\* The ids of the executed CreateChart calls of the history whose spec is valid.
ValidChartIds(messages, log) ==
    {log[j] : j \in {i \in 1..Len(log) :
        \E p \in 1..Len(messages) :
            /\ HasToolCalls(messages[p])
            /\ \E k \in 1..Len(messages[p].tool_calls) :
                  LET tc == messages[p].tool_calls[k] IN
                  /\ tc.id = log[i]
                  /\ tc.function.name = "CreateChart"
                  /\ tc.function.arguments.vega_lite_spec = "valid"}}

C20_SilentDone ==
    [][/\ (agent_phase = "acting" /\ last'.branch = "acting" /\ next_id' = next_id)
          => /\ agent_phase' = "done"
             /\ agent_events' = agent_events
             /\ agent_messages' = agent_messages
             /\ agent_pending_message = None
             /\ agent_pending_message' = None
       /\ (agent_phase = "done" /\ last'.branch # "restart")
          => /\ UNCHANGED session
             /\ client_request' = None]_vars

C20_Witness ==
    /\ last.branch = "none"
    /\ agent_phase = "done"
    /\ agent_events # <<>>
    /\ agent_events[Len(agent_events)].type = "thought"
    /\ agent_pending_message = None

\* The most model calls that can still return before the agent waits for
\* the human or is done.
RemainingCalls(phase) ==
    CASE phase = "thinking" -> 2
      [] phase \in {"acting", "generating_alternatives"} -> 1
      [] OTHER -> 0

====
